---- MODULE Spec2Model ----
(***************************************************************************)
(* Branch commands of jj (src/src/commands/branch.rs): create, set,        *)
(* delete and forget acting on the view's branch map, the glob selector    *)
(* find_globs and the fast-forward policy is_fast_forward.                 *)
(*                                                                         *)
(* A branch name and a glob pattern are tuples of one-character strings.   *)
(* Every command is one action: it runs the whole handler on the current   *)
(* view and records what the handler did (its result, whether it opened a  *)
(* transaction, the calls it staged, what it wrote to the ui).             *)
(***************************************************************************)
EXTENDS Integers, Sequences, FiniteSets, TLC

VARIABLES view, prev, cmd, result, tx, staged, warning, summary, globbed,
          e2e, git_refs, listing, values, called, first, undo

vars == <<view, prev, cmd, result, tx, staged, warning, summary, globbed,
          e2e, git_refs, listing, values, called, first, undo>>

(* ------------------------------ bounds --------------------------------- *)

\* Commits of the graph are 1..MaxCommit.
MaxCommit == 4
\* Longest list of explicit branch names given to one command.
MaxNames == 2
\* Longest list of --glob patterns given to one command.
MaxGlobs == 2

(* --------------------------- commit graph ------------------------------ *)

Commits == 1..MaxCommit

\* The graph is a binary tree rooted at commit 1: the parent of c is c \div 2.
RECURSIVE is_ancestor(_, _)
is_ancestor(a, b) ==
    IF a = b THEN TRUE
    ELSE IF b <= 1 THEN FALSE
    ELSE is_ancestor(a, b \div 2)

(* ----------------------------- ref targets ----------------------------- *)

NoTarget == [kind |-> "None"]

Normal(c) == [kind |-> "Normal", id |-> c]

Conflict(rs, as) == [kind |-> "Conflict", removes |-> rs, adds |-> as]

\* RefTarget::adds(): the operative commits of a target, in order.
adds(t) == IF t.kind = "Normal" THEN <<t.id>> ELSE t.adds

NoRemotes == [r \in {} |-> NoTarget]

BranchTarget(l, rs) == [local_target |-> l, remote_targets |-> rs]

\* BranchTarget::default(), the value entry().or_default() inserts.
DefaultBranchTarget == BranchTarget(NoTarget, NoRemotes)

(* ------------------------------- the view ------------------------------ *)

\* Branch names in the order the view's BTreeMap iterates them.
SortedNames == << <<"a">>, <<"a", "b">> >>

NameSet == {SortedNames[i] : i \in 1..Len(SortedNames)}

get_branch(v, name) == IF name \in DOMAIN v THEN v[name] ELSE NoTarget

get_local_branch(v, name) ==
    IF name \in DOMAIN v THEN v[name].local_target ELSE NoTarget

has_local(v, name) == get_local_branch(v, name) # NoTarget

Put(v, name, bt) ==
    [n \in DOMAIN v \cup {name} |-> IF n = name THEN bt ELSE v[n]]

set_local_branch(v, name, target) ==
    LET old == IF name \in DOMAIN v THEN v[name] ELSE DefaultBranchTarget
    IN  Put(v, name, BranchTarget(target, old.remote_targets))

remove_branch(v, name) == [n \in DOMAIN v \ {name} |-> v[n]]

remove_local_branch(v, name) ==
    IF name \notin DOMAIN v THEN v
    ELSE IF DOMAIN v[name].remote_targets = {} THEN remove_branch(v, name)
    ELSE Put(v, name, BranchTarget(NoTarget, v[name].remote_targets))

(* --------------------------- command outcomes -------------------------- *)

Ok == [kind |-> "Ok", names |-> <<>>]

\* An error and the branch names or patterns its message names.
Err(kind, names) == [kind |-> kind, names |-> names]

\* One staged call on tx.mut_repo().
Call(fn, name, target) == [call |-> fn, name |-> name, target |-> target]

\* A handler that returned an error before start_transaction.
Rejected(v, err, w, g) ==
    [view |-> v, result |-> err, tx |-> FALSE, staged |-> <<>>,
     warning |-> w, summary |-> 0, globbed |-> g]

\* A handler that opened a transaction, staged calls and finished it.
Committed(v, calls, w, s, g) ==
    [view |-> v, result |-> Ok, tx |-> TRUE, staged |-> calls,
     warning |-> w, summary |-> s, globbed |-> g]

\* Mutant of plural: no warning is written.
plural_silent(names) == 0

\* The plural warning of create and set: the count it prints, 0 for none.
plural(names) == IF Len(names) > 1 THEN Len(names) ELSE 0

\* resolve_single_rev and check_rewritable: revision 0 stands for a revision
\* argument that does not give one rewritable commit.
resolves(rev) == rev \in Commits

(* ------------------------------- create -------------------------------- *)

\* Index of the first name that has a local target, 0 when there is none.
RECURSIVE first_with_local(_, _, _)
first_with_local(v, names, i) ==
    IF i > Len(names) THEN 0
    ELSE IF has_local(v, names[i]) THEN i
    ELSE first_with_local(v, names, i + 1)

\* Mutant of set_local_branches: each name gets a new entry that holds the
\* local target only.
RECURSIVE set_local_branches_new_entry(_, _, _)
set_local_branches_new_entry(v, names, target) ==
    IF names = <<>> THEN v
    ELSE set_local_branches_new_entry(
             Put(v, Head(names), BranchTarget(target, NoRemotes)),
             Tail(names), target)

\* The loop staging set_local_branch for each name in turn.
RECURSIVE set_local_branches(_, _, _)
set_local_branches(v, names, target) ==
    IF names = <<>> THEN v
    ELSE set_local_branches(set_local_branch(v, Head(names), target),
                            Tail(names), target)

set_calls(names, target) ==
    [i \in 1..Len(names) |-> Call("set_local_branch", names[i], target)]

\* Mutant of cmd_branch_create: validates and stages name by name, so the names
\* before the first existing one are already staged when the error is found.
cmd_branch_create_eager(v, names, rev) ==
    LET bad == first_with_local(v, names, 1)
        done == SubSeq(names, 1, bad - 1)
    IN  IF bad # 0
        THEN [view |-> set_local_branches(v, done, Normal(rev)),
              result |-> Err("AlreadyExists", <<names[bad]>>), tx |-> TRUE,
              staged |-> set_calls(done, Normal(rev)), warning |-> 0,
              summary |-> 0, globbed |-> <<>>]
        ELSE IF ~resolves(rev)
        THEN Rejected(v, Err("RevisionError", <<>>), plural(names), <<>>)
        ELSE Committed(set_local_branches(v, names, Normal(rev)),
                       set_calls(names, Normal(rev)), plural(names), 0, <<>>)

\* Mutant of cmd_branch_create: a name that has an entry in the view is taken
\* to exist.
cmd_branch_create_checks_entry(v, names, rev) ==
    LET known == SelectSeq(names, LAMBDA n : n \in DOMAIN v)
    IN  IF known # <<>>
        THEN Rejected(v, Err("AlreadyExists", <<known[1]>>), 0, <<>>)
        ELSE IF ~resolves(rev)
        THEN Rejected(v, Err("RevisionError", <<>>), plural(names), <<>>)
        ELSE Committed(set_local_branches(v, names, Normal(rev)),
                       set_calls(names, Normal(rev)), plural(names), 0, <<>>)

\* Mutant of cmd_branch_create: the names are not checked for a local target.
cmd_branch_create_overwrite(v, names, rev) ==
    IF ~resolves(rev)
    THEN Rejected(v, Err("RevisionError", <<>>), plural(names), <<>>)
    ELSE Committed(set_local_branches(v, names, Normal(rev)),
                   set_calls(names, Normal(rev)), plural(names), 0, <<>>)

cmd_branch_create(v, names, rev) ==
    LET bad == first_with_local(v, names, 1)
    IN  IF bad # 0
        THEN Rejected(v, Err("AlreadyExists", <<names[bad]>>), 0, <<>>)
        ELSE IF ~resolves(rev)
        THEN Rejected(v, Err("RevisionError", <<>>), plural(names), <<>>)
        ELSE Committed(set_local_branches(v, names, Normal(rev)),
                       set_calls(names, Normal(rev)), plural(names), 0, <<>>)

(* --------------------------------- set --------------------------------- *)

\* Mutant of is_fast_forward: a branch without local target cannot be moved.
is_fast_forward_needs_target(v, branch_name, new_target_id) ==
    LET current_target == get_local_branch(v, branch_name)
    IN  /\ current_target # NoTarget
        /\ \E i \in 1..Len(adds(current_target)) :
               is_ancestor(adds(current_target)[i], new_target_id)

\* Mutant of is_fast_forward: every add of a conflict must be an ancestor.
is_fast_forward_all_adds(v, branch_name, new_target_id) ==
    LET current_target == get_local_branch(v, branch_name)
    IN  IF current_target # NoTarget
        THEN \A i \in 1..Len(adds(current_target)) :
                 is_ancestor(adds(current_target)[i], new_target_id)
        ELSE TRUE

is_fast_forward(v, branch_name, new_target_id) ==
    LET current_target == get_local_branch(v, branch_name)
    IN  IF current_target # NoTarget
        THEN \E i \in 1..Len(adds(current_target)) :
                 is_ancestor(adds(current_target)[i], new_target_id)
        ELSE TRUE

\* Mutant of cmd_branch_set: moves the names that pass the fast-forward check
\* and then reports the refusal for the others.
cmd_branch_set_partial(v, names, rev, allow_backwards) ==
    LET passing == SelectSeq(names, LAMBDA n : is_fast_forward(v, n, rev))
    IN  IF ~resolves(rev)
        THEN Rejected(v, Err("RevisionError", <<>>), plural(names), <<>>)
        ELSE IF ~allow_backwards /\ passing # names
        THEN [view |-> set_local_branches(v, passing, Normal(rev)),
              result |-> Err("NonFastForward", <<>>), tx |-> TRUE,
              staged |-> set_calls(passing, Normal(rev)),
              warning |-> plural(names), summary |-> 0, globbed |-> <<>>]
        ELSE Committed(set_local_branches(v, names, Normal(rev)),
                       set_calls(names, Normal(rev)), plural(names), 0, <<>>)

\* Mutant of cmd_branch_set: the override flag is not consulted.
cmd_branch_set_no_override(v, names, rev, allow_backwards) ==
    IF ~resolves(rev)
    THEN Rejected(v, Err("RevisionError", <<>>), plural(names), <<>>)
    ELSE IF ~(\A i \in 1..Len(names) : is_fast_forward(v, names[i], rev))
    THEN Rejected(v, Err("NonFastForward", <<>>), plural(names), <<>>)
    ELSE Committed(set_local_branches(v, names, Normal(rev)),
                   set_calls(names, Normal(rev)), plural(names), 0, <<>>)

cmd_branch_set(v, names, rev, allow_backwards) ==
    IF ~resolves(rev)
    THEN Rejected(v, Err("RevisionError", <<>>), plural(names), <<>>)
    ELSE IF /\ ~allow_backwards
            /\ ~(\A i \in 1..Len(names) : is_fast_forward(v, names[i], rev))
    THEN Rejected(v, Err("NonFastForward", <<>>), plural(names), <<>>)
    ELSE Committed(set_local_branches(v, names, Normal(rev)),
                   set_calls(names, Normal(rev)), plural(names), 0, <<>>)

(* ----------------------------- glob patterns --------------------------- *)

\* glob::Pattern::new: a "[" that no "]" closes is a syntax error.  The
\* patterns used here hold letters, "?", "*" and "[" only.
pattern_valid(p) == \A i \in 1..Len(p) : p[i] # "["

\* glob::Pattern::matches: "?" is any one character, "*" any run of them.
RECURSIVE glob_matches(_, _)
glob_matches(p, s) ==
    IF p = <<>> THEN s = <<>>
    ELSE IF Head(p) = "*"
    THEN glob_matches(Tail(p), s) \/ (s # <<>> /\ glob_matches(p, Tail(s)))
    ELSE IF s = <<>> THEN FALSE
    ELSE IF Head(p) = "?" THEN glob_matches(Tail(p), Tail(s))
    ELSE Head(p) = Head(s) /\ glob_matches(Tail(p), Tail(s))

\* Mutant of selects: the local target is not looked at.
selects_any(v, glob, branch_name, allow_deleted) ==
    /\ branch_name \in DOMAIN v
    /\ glob_matches(glob, branch_name)

\* The filter_map of find_globs: is this branch selected by this pattern.
selects(v, glob, branch_name, allow_deleted) ==
    /\ branch_name \in DOMAIN v
    /\ glob_matches(glob, branch_name)
    /\ (allow_deleted \/ v[branch_name].local_target # NoTarget)

\* The names one pattern selects, in the order the view iterates them.
glob_names(v, glob, allow_deleted) ==
    SelectSeq(SortedNames, LAMBDA n : selects(v, glob, n, allow_deleted))

\* The loop of find_globs from pattern i on: a pattern that does not parse
\* ends the call at once, a pattern selecting nothing is pushed to failed.
RECURSIVE find_globs_from(_, _, _, _, _, _)
find_globs_from(v, globs, allow_deleted, i, matching, failed) ==
    IF i > Len(globs)
    THEN IF failed = <<>>
         THEN [result |-> Ok, names |-> matching]
         ELSE [result |-> Err("GlobNoMatch", failed), names |-> <<>>]
    ELSE IF ~pattern_valid(globs[i])
    THEN [result |-> Err("PatternError", <<globs[i]>>), names |-> <<>>]
    ELSE LET names == glob_names(v, globs[i], allow_deleted)
         IN  find_globs_from(v, globs, allow_deleted, i + 1,
                 matching \o names,
                 IF names = <<>> THEN Append(failed, globs[i]) ELSE failed)

\* Mutant of find_globs: the error names the first failing pattern only.
find_globs_first_failure(v, globs, allow_deleted) ==
    LET all == find_globs_from(v, globs, allow_deleted, 1, <<>>, <<>>)
    IN  IF all.result.kind = "GlobNoMatch"
        THEN [result |-> Err("GlobNoMatch", <<Head(all.result.names)>>),
              names |-> <<>>]
        ELSE all

find_globs(v, globs, allow_deleted) ==
    find_globs_from(v, globs, allow_deleted, 1, <<>>, <<>>)

(* --------------------------- delete and forget ------------------------- *)

Range(s) == {s[i] : i \in 1..Len(s)}

\* Iteration order of a BTreeSet of branch names.
BTreeSeq(S) == SelectSeq(SortedNames, LAMBDA n : n \in S)

\* names: the BTreeSet collected from the explicit and the globbed names.
collect_names(names, globbed_names) == Range(names) \cup Range(globbed_names)

\* The Deleted/Forgot message: the count it prints, 0 for none.
count_message(names) == IF Cardinality(names) > 1 THEN Cardinality(names) ELSE 0

RECURSIVE first_without_local(_, _, _)
first_without_local(v, names, i) ==
    IF i > Len(names) THEN 0
    ELSE IF get_local_branch(v, names[i]) = NoTarget THEN i
    ELSE first_without_local(v, names, i + 1)

RECURSIVE first_without_branch(_, _, _)
first_without_branch(v, names, i) ==
    IF i > Len(names) THEN 0
    ELSE IF get_branch(v, names[i]) = NoTarget THEN i
    ELSE first_without_branch(v, names, i + 1)

RECURSIVE remove_local_branches(_, _)
remove_local_branches(v, names) ==
    IF names = <<>> THEN v
    ELSE remove_local_branches(remove_local_branch(v, Head(names)), Tail(names))

RECURSIVE remove_branches(_, _)
remove_branches(v, names) ==
    IF names = <<>> THEN v
    ELSE remove_branches(remove_branch(v, Head(names)), Tail(names))

remove_calls(fn, names) ==
    [i \in 1..Len(names) |-> Call(fn, names[i], NoTarget)]

\* Mutant of cmd_branch_delete: stages remove_branch, as forget does.
cmd_branch_delete_whole_entry(v, names, globs) ==
    LET bad == first_without_local(v, names, 1)
    IN  IF bad # 0
        THEN Rejected(v, Err("NotFound", <<names[bad]>>), 0, <<>>)
        ELSE LET found == find_globs(v, globs, FALSE)
                 all   == collect_names(names, found.names)
             IN  IF found.result # Ok
                 THEN Rejected(v, found.result, 0, <<>>)
                 ELSE Committed(remove_branches(v, BTreeSeq(all)),
                                remove_calls("remove_local_branch", BTreeSeq(all)),
                                0, count_message(all), found.names)

\* Mutant of cmd_branch_delete: the names are kept in a Vec, not a BTreeSet.
cmd_branch_delete_no_dedup(v, names, globs) ==
    LET bad == first_without_local(v, names, 1)
    IN  IF bad # 0
        THEN Rejected(v, Err("NotFound", <<names[bad]>>), 0, <<>>)
        ELSE LET found == find_globs(v, globs, FALSE)
                 all   == names \o found.names
             IN  IF found.result # Ok
                 THEN Rejected(v, found.result, 0, <<>>)
                 ELSE Committed(remove_local_branches(v, all),
                                remove_calls("remove_local_branch", all),
                                0, IF Len(all) > 1 THEN Len(all) ELSE 0,
                                found.names)

\* Mutant of cmd_branch_delete: the local target is cleared in place and the
\* entry stays, whatever its remote targets.
cmd_branch_delete_keep_entry(v, names, globs) ==
    LET bad == first_without_local(v, names, 1)
    IN  IF bad # 0
        THEN Rejected(v, Err("NotFound", <<names[bad]>>), 0, <<>>)
        ELSE LET found == find_globs(v, globs, FALSE)
                 all   == collect_names(names, found.names)
             IN  IF found.result # Ok
                 THEN Rejected(v, found.result, 0, <<>>)
                 ELSE Committed([n \in DOMAIN v |->
                                    IF n \in all
                                    THEN BranchTarget(NoTarget, v[n].remote_targets)
                                    ELSE v[n]],
                                remove_calls("remove_local_branch", BTreeSeq(all)),
                                0, count_message(all), found.names)

\* Mutant of cmd_branch_delete: an explicit name is accepted when the branch
\* exists in any form, as forget accepts it.
cmd_branch_delete_any_form(v, names, globs) ==
    LET bad == first_without_branch(v, names, 1)
    IN  IF bad # 0
        THEN Rejected(v, Err("NotFound", <<names[bad]>>), 0, <<>>)
        ELSE LET found == find_globs(v, globs, FALSE)
                 all   == collect_names(names, found.names)
             IN  IF found.result # Ok
                 THEN Rejected(v, found.result, 0, <<>>)
                 ELSE Committed(remove_local_branches(v, BTreeSeq(all)),
                                remove_calls("remove_local_branch", BTreeSeq(all)),
                                0, count_message(all), found.names)

cmd_branch_delete(v, names, globs) ==
    LET bad == first_without_local(v, names, 1)
    IN  IF bad # 0
        THEN Rejected(v, Err("NotFound", <<names[bad]>>), 0, <<>>)
        ELSE LET found == find_globs(v, globs, FALSE)
                 all   == collect_names(names, found.names)
             IN  IF found.result # Ok
                 THEN Rejected(v, found.result, 0, <<>>)
                 ELSE Committed(remove_local_branches(v, BTreeSeq(all)),
                                remove_calls("remove_local_branch", BTreeSeq(all)),
                                0, count_message(all), found.names)

\* Mutant of cmd_branch_forget: stages remove_local_branch, as delete does.
cmd_branch_forget_local_only(v, names, globs) ==
    LET bad == first_without_branch(v, names, 1)
    IN  IF bad # 0
        THEN Rejected(v, Err("NotFound", <<names[bad]>>), 0, <<>>)
        ELSE LET found == find_globs(v, globs, TRUE)
                 all   == collect_names(names, found.names)
             IN  IF found.result # Ok
                 THEN Rejected(v, found.result, 0, <<>>)
                 ELSE Committed(remove_local_branches(v, BTreeSeq(all)),
                                remove_calls("remove_branch", BTreeSeq(all)),
                                0, count_message(all), found.names)

\* Mutant of cmd_branch_forget: an explicit name needs a local target, as
\* delete requires it.
cmd_branch_forget_needs_local(v, names, globs) ==
    LET bad == first_without_local(v, names, 1)
    IN  IF bad # 0
        THEN Rejected(v, Err("NotFound", <<names[bad]>>), 0, <<>>)
        ELSE LET found == find_globs(v, globs, TRUE)
                 all   == collect_names(names, found.names)
             IN  IF found.result # Ok
                 THEN Rejected(v, found.result, 0, <<>>)
                 ELSE Committed(remove_branches(v, BTreeSeq(all)),
                                remove_calls("remove_branch", BTreeSeq(all)),
                                0, count_message(all), found.names)

cmd_branch_forget(v, names, globs) ==
    LET bad == first_without_branch(v, names, 1)
    IN  IF bad # 0
        THEN Rejected(v, Err("NotFound", <<names[bad]>>), 0, <<>>)
        ELSE LET found == find_globs(v, globs, TRUE)
                 all   == collect_names(names, found.names)
             IN  IF found.result # Ok
                 THEN Rejected(v, found.result, 0, <<>>)
                 ELSE Committed(remove_branches(v, BTreeSeq(all)),
                                remove_calls("remove_branch", BTreeSeq(all)),
                                0, count_message(all), found.names)

(* --------------------------------- list -------------------------------- *)

\* Remote names in the order a BTreeMap of remote targets iterates them.
SortedRemotes == <<"git", "origin">>

\* The loop merging the git-tracking branches into all_branches, over the
\* tracked names from the i-th on: a branch that has a remote named "git" is
\* warned about and left as it is, any other gets the target under "git".
RECURSIVE merge_git_tracking(_, _, _, _, _)
merge_git_tracking(all_branches, git, names, i, warned) ==
    IF i > Len(names)
    THEN [branches |-> all_branches, warned |-> warned]
    ELSE LET branch_name == names[i]
             branch_target == IF branch_name \in DOMAIN all_branches
                              THEN all_branches[branch_name]
                              ELSE DefaultBranchTarget
             rts == branch_target.remote_targets
         IN  IF "git" \in DOMAIN rts
             THEN merge_git_tracking(Put(all_branches, branch_name, branch_target),
                                     git, names, i + 1,
                                     Append(warned, branch_name))
             ELSE merge_git_tracking(
                      Put(all_branches, branch_name,
                          BranchTarget(branch_target.local_target,
                              [r \in DOMAIN rts \cup {"git"} |->
                                  IF r = "git" THEN git[branch_name]
                                  ELSE rts[r]])),
                      git, names, i + 1, warned)

\* Mutant of compose_branches: the git-tracking target replaces a stored
\* target under "git".
compose_branches_overwrite(v, git) ==
    [branches |->
        [n \in DOMAIN v \cup DOMAIN git |->
            LET bt == IF n \in DOMAIN v THEN v[n] ELSE DefaultBranchTarget
            IN  IF n \in DOMAIN git
                THEN BranchTarget(bt.local_target,
                         [r \in DOMAIN bt.remote_targets \cup {"git"} |->
                             IF r = "git" THEN git[n] ELSE bt.remote_targets[r]])
                ELSE bt],
     warned |-> <<>>]

\* all_branches: the branches of the view with the git-tracking branches
\* merged in, and the branches warned about.
compose_branches(v, git) ==
    merge_git_tracking(v, git, SelectSeq(SortedNames, LAMBDA n : n \in DOMAIN git),
                       1, <<>>)

\* revset::walk_revs(repo, wanted, unwanted).count(): the commits reachable
\* from a wanted commit and from no unwanted one.
walk_revs_count(wanted, unwanted) ==
    Cardinality({c \in Commits :
        /\ \E i \in 1..Len(wanted) : is_ancestor(c, wanted[i])
        /\ ~\E i \in 1..Len(unwanted) : is_ancestor(c, unwanted[i])})

\* Mutant of divergence_note: the last case is a plain else.
divergence_note_else(remote_ahead_count, local_ahead_count) ==
    IF remote_ahead_count # 0 /\ local_ahead_count = 0 THEN "ahead"
    ELSE IF remote_ahead_count = 0 /\ local_ahead_count # 0 THEN "behind"
    ELSE "ahead, behind"

\* Mutant of divergence_note: the first case looks at the remote count only.
divergence_note_one_way(remote_ahead_count, local_ahead_count) ==
    IF remote_ahead_count # 0 THEN "ahead"
    ELSE IF remote_ahead_count = 0 /\ local_ahead_count # 0 THEN "behind"
    ELSE IF remote_ahead_count # 0 /\ local_ahead_count # 0 THEN "ahead, behind"
    ELSE ""

\* The annotation written after "@remote": which counts it shows.
divergence_note(remote_ahead_count, local_ahead_count) ==
    IF remote_ahead_count # 0 /\ local_ahead_count = 0 THEN "ahead"
    ELSE IF remote_ahead_count = 0 /\ local_ahead_count # 0 THEN "behind"
    ELSE IF remote_ahead_count # 0 /\ local_ahead_count # 0 THEN "ahead, behind"
    ELSE ""

\* What is written for one remote target that differs from the local target:
\* the counts are computed only when the branch has a local target.
remote_line(remote, remote_target, local_target) ==
    IF local_target # NoTarget
    THEN LET remote_ahead_count ==
                 walk_revs_count(adds(remote_target), adds(local_target))
             local_ahead_count ==
                 walk_revs_count(adds(local_target), adds(remote_target))
         IN  [remote |-> remote, target |-> remote_target, counted |-> TRUE,
              ahead |-> remote_ahead_count, behind |-> local_ahead_count,
              note |-> divergence_note(remote_ahead_count, local_ahead_count)]
    ELSE [remote |-> remote, target |-> remote_target, counted |-> FALSE,
          ahead |-> 0, behind |-> 0, note |-> ""]

\* The remotes listed under a branch, in order: those whose target is not the
\* local target.
listed_remotes(branch_target) ==
    SelectSeq(SortedRemotes,
              LAMBDA r : /\ r \in DOMAIN branch_target.remote_targets
                         /\ branch_target.remote_targets[r] #
                                branch_target.local_target)

\* Mutant of branch_lines: the pseudo remote "git" counts as a remote.
branch_lines_any_remote(name, branch_target) ==
    LET found_remote == Cardinality(DOMAIN branch_target.remote_targets) > 0
        shown == listed_remotes(branch_target)
    IN  [name |-> name,
         state |-> IF branch_target.local_target # NoTarget THEN "target"
                   ELSE IF found_remote THEN "deleted"
                   ELSE "forgotten",
         target |-> branch_target.local_target,
         remotes |-> [i \in 1..Len(shown) |->
                         remote_line(shown[i],
                                     branch_target.remote_targets[shown[i]],
                                     branch_target.local_target)],
         hint |-> IF branch_target.local_target # NoTarget THEN "none"
                  ELSE IF found_remote THEN "deleted on next push"
                  ELSE "deleted on next export"]

\* What is written for one branch of all_branches.
branch_lines(name, branch_target) ==
    LET found_non_git_remote ==
            Cardinality(DOMAIN branch_target.remote_targets)
                - (IF "git" \in DOMAIN branch_target.remote_targets THEN 1 ELSE 0)
                > 0
        shown == listed_remotes(branch_target)
    IN  [name |-> name,
         state |-> IF branch_target.local_target # NoTarget THEN "target"
                   ELSE IF found_non_git_remote THEN "deleted"
                   ELSE "forgotten",
         target |-> branch_target.local_target,
         remotes |-> [i \in 1..Len(shown) |->
                         remote_line(shown[i],
                                     branch_target.remote_targets[shown[i]],
                                     branch_target.local_target)],
         hint |-> IF branch_target.local_target # NoTarget THEN "none"
                  ELSE IF found_non_git_remote THEN "deleted on next push"
                  ELSE "deleted on next export"]

cmd_branch_list(v, git) ==
    LET composed == compose_branches(v, git)
        names == SelectSeq(SortedNames, LAMBDA n : n \in DOMAIN composed.branches)
    IN  [branches |-> composed.branches,
         warned |-> composed.warned,
         lines |-> [i \in 1..Len(names) |->
                       branch_lines(names[i], composed.branches[names[i]])]]

(* ---------------------------- the state machine ------------------------ *)

\* Lists of at most n elements of S.
ListsUpTo(S, n) == UNION {[1..k -> S] : k \in 0..n}

NameLists == ListsUpTo(NameSet, MaxNames)

\* Patterns given to --glob: "a*" matches both names, "?" only "a", "*b" only
\* "ab", "b*" none, and "[" does not parse.
Patterns == { <<"a", "*">>, <<"?">>, <<"*", "b">>, <<"b", "*">>, <<"[">> }

GlobLists == ListsUpTo(Patterns, MaxGlobs)

Revisions == 0..MaxCommit

\* Targets a view can hold before the first command: one commit, or the
\* conflict left by two concurrent moves of a branch from 1 to 2 and to 3.
InitLocals == {NoTarget, Normal(1), Conflict(<<1>>, <<2, 3>>)}

InitRemotes == {NoRemotes, [r \in {"origin"} |-> Normal(2)]}

InitBranchTargets ==
    {BranchTarget(l, rs) : l \in InitLocals, rs \in InitRemotes}
        \ {DefaultBranchTarget}

InitViews ==
    UNION {[S -> InitBranchTargets] : S \in SUBSET NameSet}

NoCommand ==
    [op |-> "none", names |-> <<>>, globs |-> <<>>, rev |-> 0,
     allow_backwards |-> FALSE]

Command(op, names, globs, rev, allow_backwards) ==
    [op |-> op, names |-> names, globs |-> globs, rev |-> rev,
     allow_backwards |-> allow_backwards]

\* The progress of the end-to-end scenario: no step of it has been made.
NoScenario == [step |-> 0, name |-> <<>>, a |-> 0, c |-> 0]

\* No delete that a create could undo has been made.
NoUndo == [step |-> 0, name |-> <<>>, entry |-> DefaultBranchTarget]

\* What an invocation other than list has written as the list of branches.
NoListing == [branches |-> <<>>, warned |-> <<>>, lines |-> <<>>]

\* No call of the AnyMap has been made.
NoCall ==
    [fn |-> "none", type |-> "none", arg |-> 0, ret |-> 0, made |-> FALSE,
     was |-> <<>>]

\* No invocation is running: nothing is left of an earlier one but the view.
Fresh ==
    /\ prev = view
    /\ cmd = NoCommand
    /\ result = Ok
    /\ tx = FALSE
    /\ staged = <<>>
    /\ warning = 0
    /\ summary = 0
    /\ globbed = <<>>
    /\ listing = NoListing

\* The state outside the branch commands: an empty AnyMap, no call made.
EmptyMap ==
    /\ values = <<>>
    /\ called = NoCall
    /\ first = <<>>

Init ==
    /\ view \in InitViews
    /\ Fresh
    /\ e2e = NoScenario
    /\ undo = NoUndo
    /\ git_refs = <<>>
    /\ EmptyMap

\* cmd_branch runs one subcommand per invocation of the program: out is what
\* its handler did on the view the invocation loaded.
Run(c, out) ==
    /\ prev' = view
    /\ cmd' = c
    /\ view' = out.view
    /\ result' = out.result
    /\ tx' = out.tx
    /\ staged' = out.staged
    /\ warning' = out.warning
    /\ summary' = out.summary
    /\ globbed' = out.globbed

\* The invocation ends: its Result, its ui and its transaction are gone, the
\* view it committed is what the next invocation loads.
Exit ==
    /\ cmd # NoCommand
    /\ cmd' = NoCommand
    /\ prev' = view
    /\ result' = Ok
    /\ tx' = FALSE
    /\ staged' = <<>>
    /\ warning' = 0
    /\ summary' = 0
    /\ globbed' = <<>>
    /\ listing' = NoListing
    /\ UNCHANGED <<view, e2e, git_refs, values, called, first, undo>>

\* No invocation is in progress.
Idle == cmd = NoCommand

\* What the four mutations leave alone besides the view's remote targets.
Others == <<e2e, git_refs, listing, values, called, first, undo>>

Create ==
    /\ Idle
    /\ \E names \in NameLists \ {<<>>}, rev \in Revisions :
           Run(Command("create", names, <<>>, rev, FALSE),
               cmd_branch_create(view, names, rev))
    /\ UNCHANGED Others

Set ==
    /\ Idle
    /\ \E names \in NameLists \ {<<>>}, rev \in Revisions, ab \in BOOLEAN :
           Run(Command("set", names, <<>>, rev, ab),
               cmd_branch_set(view, names, rev, ab))
    /\ UNCHANGED Others

Delete ==
    /\ Idle
    /\ \E names \in NameLists, globs \in GlobLists :
           /\ names # <<>> \/ globs # <<>>
           /\ Run(Command("delete", names, globs, 0, FALSE),
                  cmd_branch_delete(view, names, globs))
    /\ UNCHANGED Others

Forget ==
    /\ Idle
    /\ \E names \in NameLists, globs \in GlobLists :
           /\ names # <<>> \/ globs # <<>>
           /\ Run(Command("forget", names, globs, 0, FALSE),
                  cmd_branch_forget(view, names, globs))
    /\ UNCHANGED Others

Next == Create \/ Set \/ Delete \/ Forget \/ Exit

Spec == Init /\ [][Next]_vars

(* ------------------- commands on one branch, in sequence --------------- *)

\* The end-to-end scenario on one branch, followed through the invocations:
\* step 1 is a create of a branch without entry at a commit a, step 2 a second
\* create of that branch, step 3 a set of it without override to a commit c
\* that a is no ancestor of, step 4 the same set with the override.  Any
\* other invocation starts the scenario over.
Track(c) ==
    LET n == c.names[1]
    IN  IF c.op = "create" /\ e2e.step = 1 /\ n = e2e.name
        THEN [e2e EXCEPT !.step = 2]
        ELSE IF c.op = "create" /\ n \notin DOMAIN view /\ resolves(c.rev)
        THEN [step |-> 1, name |-> n, a |-> c.rev, c |-> 0]
        ELSE IF /\ c.op = "set" /\ e2e.step = 2 /\ n = e2e.name
                /\ ~c.allow_backwards
                /\ resolves(c.rev)
                /\ ~is_ancestor(e2e.a, c.rev)
        THEN [e2e EXCEPT !.step = 3, !.c = c.rev]
        ELSE IF /\ c.op = "set" /\ e2e.step = 3 /\ n = e2e.name
                /\ c.allow_backwards
                /\ c.rev = e2e.c
        THEN [e2e EXCEPT !.step = 4]
        ELSE NoScenario

\* The delete and create round trip as command c moves it on: step 1 is a
\* delete of a branch that has one commit as local target and remote targets,
\* whose entry is kept; step 2 is a create of that branch at that commit, made
\* next.  Any other invocation starts over.
Follow(c) ==
    LET n == c.names[1]
    IN  IF /\ c.op = "delete"
           /\ n \in DOMAIN view
           /\ view[n].local_target.kind = "Normal"
           /\ view[n].remote_targets # NoRemotes
        THEN [step |-> 1, name |-> n, entry |-> view[n]]
        ELSE IF /\ c.op = "create" /\ undo.step = 1 /\ n = undo.name
                /\ Normal(c.rev) = undo.entry.local_target
        THEN [undo EXCEPT !.step = 2]
        ELSE NoUndo

\* What the commands on one branch leave alone.
OthersOne == <<git_refs, listing, values, called, first>>

CreateOne ==
    /\ Idle
    /\ \E n \in NameSet, rev \in Revisions :
           LET c == Command("create", <<n>>, <<>>, rev, FALSE)
           IN  /\ Run(c, cmd_branch_create(view, <<n>>, rev))
               /\ e2e' = Track(c)
               /\ undo' = Follow(c)
    /\ UNCHANGED OthersOne

SetOne ==
    /\ Idle
    /\ \E n \in NameSet, rev \in Revisions, ab \in BOOLEAN :
           LET c == Command("set", <<n>>, <<>>, rev, ab)
           IN  /\ Run(c, cmd_branch_set(view, <<n>>, rev, ab))
               /\ e2e' = Track(c)
               /\ undo' = Follow(c)
    /\ UNCHANGED OthersOne

DeleteOne ==
    /\ Idle
    /\ \E n \in NameSet :
           LET c == Command("delete", <<n>>, <<>>, 0, FALSE)
           IN  /\ Run(c, cmd_branch_delete(view, <<n>>, <<>>))
               /\ e2e' = Track(c)
               /\ undo' = Follow(c)
    /\ UNCHANGED OthersOne

ForgetOne ==
    /\ Idle
    /\ \E n \in NameSet :
           LET c == Command("forget", <<n>>, <<>>, 0, FALSE)
           IN  /\ Run(c, cmd_branch_forget(view, <<n>>, <<>>))
               /\ e2e' = Track(c)
               /\ undo' = Follow(c)
    /\ UNCHANGED OthersOne

NextOne == CreateOne \/ SetOne \/ DeleteOne \/ ForgetOne \/ Exit

SpecOne == Init /\ [][NextOne]_vars

(* ------------------------------ listing -------------------------------- *)

\* Targets of the views that are listed: one commit, or one of two conflicts
\* with the same adds, left by concurrent moves of a branch from 1, or from 2,
\* to 3 and to 4.
ListTargets ==
    {Normal(c) : c \in Commits}
        \cup {Conflict(<<1>>, <<3, 4>>), Conflict(<<2>>, <<3, 4>>)}

\* Remote targets of the first branch: any target on "origin", and possibly
\* a remote that is itself named "git".
ListRemotes ==
    {rs \in UNION {[R -> ListTargets] : R \in SUBSET {"git", "origin"}} :
        "git" \in DOMAIN rs => rs["git"] = Normal(1)}

ListBranchTargets ==
    {BranchTarget(l, rs) : l \in ListTargets \cup {NoTarget}, rs \in ListRemotes}
        \ {DefaultBranchTarget}

\* The views that are listed: any entry for the first branch, and for the
\* second branch no entry or one of the entries of InitBranchTargets.
ListViews ==
    {v \in UNION {[S -> ListBranchTargets \cup InitBranchTargets] :
                     S \in SUBSET NameSet} :
        \A n \in DOMAIN v : n # SortedNames[1] => v[n] \in InitBranchTargets}

\* git_tracking_branches(view): the targets of the branches of the local git
\* repository.
GitTrackingMaps ==
    UNION {[S -> {Normal(2), Normal(3)}] : S \in SUBSET NameSet}

InitList ==
    /\ view \in ListViews
    /\ Fresh
    /\ e2e = NoScenario
    /\ undo = NoUndo
    /\ git_refs \in GitTrackingMaps
    /\ EmptyMap

List ==
    /\ Idle
    /\ prev' = view
    /\ cmd' = Command("list", <<>>, <<>>, 0, FALSE)
    /\ result' = Ok
    /\ tx' = FALSE
    /\ staged' = <<>>
    /\ warning' = 0
    /\ summary' = 0
    /\ globbed' = <<>>
    /\ listing' = cmd_branch_list(view, git_refs)
    /\ undo' = NoUndo
    /\ UNCHANGED <<view, e2e, git_refs, values, called, first>>

NextList == List \/ DeleteOne \/ ForgetOne \/ Exit

SpecList == InitList /\ [][NextList]_vars

(* --------------------------------- AnyMap ------------------------------ *)

\* The largest value a generator produces.
MaxValue == 3

\* TypeId::of::<V>() for the types that are stored.
TypeIds == {"TestTypeA", "TestTypeB"}

\* The values of one type; all types share the numbers, the map keeps them
\* apart by their TypeId.
Values == 1..MaxValue

\* Option::None, as the answer of get.
None == 0

\* OnceMap::get: the value stored under the key, if any.
once_map_get(m, key) == IF key \in DOMAIN m THEN m[key] ELSE None

\* OnceMap::insert: the value under the key if there is one, and the closure
\* is not called; else the closure is called and its value is stored.
once_map_insert(m, key, made_value) ==
    IF key \in DOMAIN m
    THEN [values |-> m, ret |-> m[key], made |-> FALSE]
    ELSE [values |-> Put(m, key, made_value), ret |-> made_value,
          made |-> TRUE]

\* AnyMap::get::<V>().
get(m, V) == once_map_get(m, V)

\* Mutant of insert: the generator's value replaces the stored one.
insert_replace(m, V, generated) ==
    [values |-> Put(m, V, generated), ret |-> generated, made |-> TRUE]

\* AnyMap::insert::<V>(generator), where the generator yields generated.
insert(m, V, generated) == once_map_insert(m, V, generated)

\* AnyMap::new() in a process that runs no branch command.
InitAnyMap ==
    /\ view = <<>>
    /\ Fresh
    /\ e2e = NoScenario
    /\ undo = NoUndo
    /\ git_refs = <<>>
    /\ EmptyMap

\* The branch commands' state, which the AnyMap does not touch.
OthersAnyMap ==
    <<view, prev, cmd, result, tx, staged, warning, summary, globbed, e2e,
      git_refs, listing, undo>>

Get ==
    \E V \in TypeIds :
        /\ called' = [fn |-> "get", type |-> V, arg |-> 0,
                      ret |-> get(values, V), made |-> FALSE, was |-> values]
        /\ UNCHANGED <<values, first>>
        /\ UNCHANGED OthersAnyMap

\* first keeps, for every type, the value of the earliest insert of the type.
Insert ==
    \E V \in TypeIds, generated \in Values :
        LET out == insert(values, V, generated) IN
        /\ values' = out.values
        /\ called' = [fn |-> "insert", type |-> V, arg |-> generated,
                      ret |-> out.ret, made |-> out.made, was |-> values]
        /\ first' = IF V \in DOMAIN first THEN first
                                          ELSE Put(first, V, generated)
        /\ UNCHANGED OthersAnyMap

NextAnyMap == Get \/ Insert

SpecAnyMap == InitAnyMap /\ [][NextAnyMap]_vars

(* ------------------------------- properties ---------------------------- *)

\* The names the last command was given, and the view it found unchanged.
Named == Range(cmd.names)

SameEntry(n) == get_branch(view, n) = get_branch(prev, n)

SameLocal(n) == get_local_branch(view, n) = get_local_branch(prev, n)

\* C1: a create naming at least one branch that already has a local target
\* fails with AlreadyExists, opens no transaction, stages nothing and leaves
\* the entry of every named branch as it was, also of the names listed before
\* the existing one.
C1_CreateExistingRejected ==
    (cmd.op = "create" /\ \E n \in Named : has_local(prev, n))
        => /\ result.kind = "AlreadyExists"
           /\ ~tx
           /\ staged = <<>>
           /\ \A n \in Named : SameEntry(n)

\* A create of two names, the first free and the second taken, was rejected.
C1_Witness ==
    /\ cmd.op = "create"
    /\ Len(cmd.names) = 2
    /\ ~has_local(prev, cmd.names[1])
    /\ has_local(prev, cmd.names[2])
    /\ result = Err("AlreadyExists", <<cmd.names[2]>>)
    /\ ~has_local(view, cmd.names[1])

\* C2: a set without override whose revision resolves and for which
\* is_fast_forward is false for at least one name fails with NonFastForward,
\* opens no transaction and changes no branch's local target.
C2_SetNonForwardRejected ==
    (/\ cmd.op = "set"
     /\ ~cmd.allow_backwards
     /\ resolves(cmd.rev)
     /\ \E n \in Named : ~is_fast_forward(prev, n, cmd.rev))
        => /\ result.kind = "NonFastForward"
           /\ ~tx
           /\ staged = <<>>
           /\ \A n \in NameSet : SameLocal(n)

\* A set of two names was refused although the first name alone could have
\* moved forward to a new commit.
C2_Witness ==
    /\ cmd.op = "set"
    /\ ~cmd.allow_backwards
    /\ Len(cmd.names) = 2
    /\ is_fast_forward(prev, cmd.names[1], cmd.rev)
    /\ get_local_branch(prev, cmd.names[1]) # Normal(cmd.rev)
    /\ ~is_fast_forward(prev, cmd.names[2], cmd.rev)
    /\ result.kind = "NonFastForward"
    /\ SameLocal(cmd.names[1])

\* C3: a set whose revision resolves succeeds when the override is given or
\* every name passes the fast-forward check; a successful set leaves every
\* named branch with the local target Normal(c); a set with the override never
\* fails with NonFastForward.
C3_SetSuccessSetsNormal ==
    cmd.op = "set"
        => /\ (/\ resolves(cmd.rev)
               /\ \/ cmd.allow_backwards
                  \/ \A n \in Named : is_fast_forward(prev, n, cmd.rev))
                  => result = Ok
           /\ result = Ok
                  => /\ tx
                     /\ \A n \in Named :
                            get_local_branch(view, n) = Normal(cmd.rev)
           /\ cmd.allow_backwards => result.kind # "NonFastForward"

\* A set with the override moved a conflicted branch to a commit that none of
\* its adds is an ancestor of.
C3_Witness ==
    /\ cmd.op = "set"
    /\ cmd.allow_backwards
    /\ result = Ok
    /\ \E n \in Named :
           /\ get_local_branch(prev, n).kind = "Conflict"
           /\ ~is_fast_forward(prev, n, cmd.rev)
           /\ get_local_branch(view, n) = Normal(cmd.rev)

\* The branches the last delete or forget staged a removal for.
Removed == {staged[i].name : i \in 1..Len(staged)}

\* C4: a successful delete leaves every branch it deleted that had a local
\* target and at least one remote target in the view, with no local target
\* and with the remote targets it had.
C4_DeleteKeepsRemotes ==
    (cmd.op = "delete" /\ result = Ok)
        => \A n \in Removed :
               (has_local(prev, n) /\ prev[n].remote_targets # NoRemotes)
                   => /\ n \in DOMAIN view
                      /\ view[n].local_target = NoTarget
                      /\ view[n].remote_targets = prev[n].remote_targets

\* A delete removed the local target of a branch that has a remote target.
C4_Witness ==
    /\ cmd.op = "delete"
    /\ result = Ok
    /\ \E n \in Removed :
           /\ has_local(prev, n)
           /\ prev[n].remote_targets # NoRemotes
           /\ view[n] = BranchTarget(NoTarget, prev[n].remote_targets)

\* C5: a forget by explicit names that all have an entry succeeds, and a
\* successful forget leaves no entry for any branch it named or removed.
C5_ForgetRemovesEntry ==
    cmd.op = "forget"
        => /\ (cmd.globs = <<>> /\ \A n \in Named : n \in DOMAIN prev)
                  => result = Ok
           /\ result = Ok
                  => \A n \in Named \cup Removed :
                         /\ n \notin DOMAIN view
                         /\ get_branch(view, n) = NoTarget
                         /\ ~has_local(view, n)

\* A forget by name removed a branch that had remote targets only.
C5_Witness ==
    /\ cmd.op = "forget"
    /\ result = Ok
    /\ \E n \in Named :
           /\ n \in DOMAIN prev
           /\ prev[n].local_target = NoTarget
           /\ prev[n].remote_targets # NoRemotes
           /\ n \notin DOMAIN view

\* C6: is_fast_forward holds for every commit when the branch has no local
\* target, and a set without override whose revision resolves and whose names
\* all lack a local target succeeds and gives each the target Normal(c).
C6_NoLocalTargetIsForward ==
    /\ \A n \in NameSet, c \in Commits :
           ~has_local(view, n) => is_fast_forward(view, n, c)
    /\ (/\ cmd.op = "set"
        /\ ~cmd.allow_backwards
        /\ resolves(cmd.rev)
        /\ \A n \in Named : ~has_local(prev, n))
           => /\ result = Ok
              /\ \A n \in Named : get_local_branch(view, n) = Normal(cmd.rev)

\* A set without override gave a local target to a branch that had remote
\* targets only.
C6_Witness ==
    /\ cmd.op = "set"
    /\ ~cmd.allow_backwards
    /\ result = Ok
    /\ \E n \in Named :
           /\ n \in DOMAIN prev
           /\ prev[n].local_target = NoTarget
           /\ view[n] = BranchTarget(Normal(cmd.rev), prev[n].remote_targets)

\* Some commit of a target's operative set is an ancestor of c: the commit of
\* a Normal target, a member of the adds of a Conflict.
SomeOperativeAncestor(t, c) ==
    IF t.kind = "Normal" THEN is_ancestor(t.id, c)
    ELSE \E a \in Range(t.adds) : is_ancestor(a, c)

\* C7: for a branch with a local target, is_fast_forward is true exactly when
\* some commit of the target's operative set is an ancestor of the new commit,
\* and a set of that one branch without override succeeds exactly then.
C7_ForwardIffSomeAddIsAncestor ==
    /\ \A n \in NameSet, c \in Commits :
           has_local(view, n)
               => (is_fast_forward(view, n, c)
                      <=> SomeOperativeAncestor(get_local_branch(view, n), c))
    /\ (/\ cmd.op = "set"
        /\ ~cmd.allow_backwards
        /\ resolves(cmd.rev)
        /\ Len(cmd.names) = 1
        /\ has_local(prev, cmd.names[1]))
           => (result = Ok <=>
                   SomeOperativeAncestor(get_local_branch(prev, cmd.names[1]),
                                         cmd.rev))

\* A set without override moved a conflicted branch forward past its second
\* add although its first add is no ancestor of the new commit.
C7_Witness ==
    /\ cmd.op = "set"
    /\ ~cmd.allow_backwards
    /\ Len(cmd.names) = 1
    /\ result = Ok
    /\ LET t == get_local_branch(prev, cmd.names[1])
       IN  /\ t.kind = "Conflict"
           /\ Len(t.adds) = 2
           /\ ~is_ancestor(t.adds[1], cmd.rev)
           /\ is_ancestor(t.adds[2], cmd.rev)

\* The last command was a delete or a forget.
Removal == cmd.op \in {"delete", "forget"}

\* The allow_deleted argument the last command passes to find_globs.
AllowDeleted == cmd.op = "forget"

\* Every explicit name passed the check of its command, so that the command
\* went on to call find_globs.
GlobsResolved ==
    /\ Removal
    /\ \A n \in Named : IF AllowDeleted THEN n \in DOMAIN prev
                        ELSE has_local(prev, n)

\* Branch n is eligible for pattern g: the name satisfies the pattern and the
\* branch has a local target or deleted branches are allowed.
Eligible(g, n) ==
    /\ n \in DOMAIN prev
    /\ glob_matches(g, n)
    /\ (AllowDeleted \/ prev[n].local_target # NoTarget)

\* The well-formed patterns of the request no branch is eligible for, in the
\* order given.
FailingPatterns ==
    SelectSeq(cmd.globs,
              LAMBDA g : pattern_valid(g) /\ \A n \in NameSet : ~Eligible(g, n))

AllPatternsValid == \A g \in Range(cmd.globs) : pattern_valid(g)

\* C8 as stated: whenever some pattern of the request has no eligible branch,
\* the error names every such pattern and the view is unchanged.
C8_AsStated ==
    (GlobsResolved /\ FailingPatterns # <<>>)
        => /\ result = Err("GlobNoMatch", FailingPatterns)
           /\ view = prev

\* C8 amended: whenever some pattern of the request has no eligible branch,
\* the command fails without opening a transaction and the view is unchanged;
\* when every pattern of the request is well formed the error names every
\* failing pattern in the order given, and otherwise it is the syntax error of
\* a malformed pattern.
C8_FailingGlobsRejectRequest ==
    (GlobsResolved /\ FailingPatterns # <<>>)
        => /\ ~tx
           /\ staged = <<>>
           /\ view = prev
           /\ IF AllPatternsValid
              THEN result = Err("GlobNoMatch", FailingPatterns)
              ELSE result.kind = "PatternError"

\* A delete with a valid explicit name and two different patterns that both
\* select nothing was rejected, the error naming both patterns.
C8_Witness ==
    /\ cmd.op = "delete"
    /\ Len(cmd.names) = 1
    /\ has_local(prev, cmd.names[1])
    /\ Len(cmd.globs) = 2
    /\ cmd.globs[1] # cmd.globs[2]
    /\ result = Err("GlobNoMatch", cmd.globs)
    /\ has_local(view, cmd.names[1])

\* How often x occurs in the list s.
Occurrences(s, x) == Cardinality({i \in 1..Len(s) : s[i] = x})

\* C9: in a successful delete or forget, find_globs returned each branch once
\* per pattern it is eligible for; one removal was staged for each distinct
\* name among the explicit and the globbed names and for nothing else; the
\* count of the summary message is the number of distinct names.
C9_GlobDuplicatesRemovedOnce ==
    (Removal /\ result = Ok)
        => /\ \A n \in NameSet :
                  Occurrences(globbed, n) =
                      Cardinality({i \in 1..Len(cmd.globs) :
                                      Eligible(cmd.globs[i], n)})
           /\ \A n \in Named \cup Range(globbed) :
                  Cardinality({i \in 1..Len(staged) : staged[i].name = n}) = 1
           /\ Len(staged) = Cardinality(Named \cup Range(globbed))
           /\ summary = IF Len(staged) > 1 THEN Len(staged) ELSE 0

\* A delete by two patterns that both select the same branch got that branch
\* twice from find_globs and staged one removal for it.
C9_Witness ==
    /\ cmd.op = "delete"
    /\ result = Ok
    /\ Len(cmd.globs) = 2
    /\ cmd.globs[1] # cmd.globs[2]
    /\ \E n \in NameSet :
           /\ Occurrences(globbed, n) = 2
           /\ Cardinality({i \in 1..Len(staged) : staged[i].name = n}) = 1
           /\ ~has_local(view, n)

\* The branches whose name satisfies pattern g, whatever their targets.
TextualMatches(g) == {n \in DOMAIN prev : glob_matches(g, n)}

\* C10: a successful delete or forget got from find_globs exactly the branches
\* that satisfy one of its patterns and have a local target or are taken by
\* forget; a delete whose explicit names and patterns are valid fails with
\* GlobNoMatch naming every pattern whose textual matches all lack a local
\* target; a successful forget removes the branches without local target that
\* satisfy one of its patterns.
C10_GlobSelectsLocalOrAllowed ==
    /\ (Removal /\ result = Ok)
           => Range(globbed) =
                  {n \in DOMAIN prev :
                      \E g \in Range(cmd.globs) :
                          /\ glob_matches(g, n)
                          /\ (cmd.op = "forget" \/ has_local(prev, n))}
    /\ (cmd.op = "delete" /\ result = Ok)
           => \A n \in Range(globbed) : has_local(prev, n)
    /\ (/\ cmd.op = "delete"
        /\ GlobsResolved
        /\ AllPatternsValid
        /\ \E g \in Range(cmd.globs) :
               \A n \in TextualMatches(g) : ~has_local(prev, n))
           => /\ result.kind = "GlobNoMatch"
              /\ \A g \in Range(cmd.globs) :
                     (\A n \in TextualMatches(g) : ~has_local(prev, n))
                         => g \in Range(result.names)
    /\ (cmd.op = "forget" /\ result = Ok)
           => \A g \in Range(cmd.globs) :
                  \A n \in TextualMatches(g) :
                      n \in Range(globbed) /\ n \notin DOMAIN view

\* A delete by a pattern whose only textual match is a branch with remote
\* targets only was rejected, the error naming the pattern.
C10_Witness ==
    /\ cmd.op = "delete"
    /\ \E g \in Range(cmd.globs) :
           /\ TextualMatches(g) # {}
           /\ \A n \in TextualMatches(g) :
                  /\ prev[n].local_target = NoTarget
                  /\ prev[n].remote_targets # NoRemotes
           /\ result.kind = "GlobNoMatch"
           /\ g \in Range(result.names)
    /\ view = prev

\* The first element of the list s that satisfies Test.
FirstSuch(s, Test(_)) == Head(SelectSeq(s, Test))

\* C11: a delete with an explicit name that has no local target fails with
\* NotFound naming the first such name, opens no transaction and leaves the
\* view unchanged, whatever the other names and the patterns of the request
\* are; after a successful delete, a delete of any of its explicit names
\* fails with NotFound naming it.
C11_DeleteWithoutLocalNotFound ==
    /\ (cmd.op = "delete" /\ \E n \in Named : ~has_local(prev, n))
           => /\ result = Err("NotFound",
                      <<FirstSuch(cmd.names, LAMBDA n : ~has_local(prev, n))>>)
              /\ ~tx
              /\ staged = <<>>
              /\ view = prev
    /\ (cmd.op = "delete" /\ result = Ok)
           => \A n \in Named :
                  /\ ~has_local(view, n)
                  /\ cmd_branch_delete(view, <<n>>, <<>>) =
                         Rejected(view, Err("NotFound", <<n>>), 0, <<>>)

\* A delete naming a branch with a local target and then a branch with remote
\* targets only, with a pattern that selects a branch, was rejected for the
\* second name and changed nothing.
C11_Witness ==
    /\ cmd.op = "delete"
    /\ Len(cmd.names) = 2
    /\ has_local(prev, cmd.names[1])
    /\ cmd.names[2] \in DOMAIN prev
    /\ ~has_local(prev, cmd.names[2])
    /\ Len(cmd.globs) = 1
    /\ find_globs(prev, cmd.globs, FALSE).result = Ok
    /\ result = Err("NotFound", <<cmd.names[2]>>)
    /\ view = prev

\* C12: a forget fails with NotFound exactly when some explicit name has no
\* entry in the view; the error names the first such name, no transaction is
\* opened and the view is unchanged; a forget by explicit names that all have
\* an entry succeeds, also for a branch with remote targets only.  After a
\* successful delete, a forget of a deleted branch that kept its entry
\* succeeds; after a successful forget, a forget of any of its explicit names
\* fails with NotFound.
C12_ForgetAnyFormOrNotFound ==
    /\ cmd.op = "forget"
           => /\ result.kind = "NotFound" <=> \E n \in Named : n \notin DOMAIN prev
              /\ result.kind = "NotFound"
                     => /\ result.names =
                              <<FirstSuch(cmd.names,
                                          LAMBDA n : n \notin DOMAIN prev)>>
                        /\ ~tx
                        /\ view = prev
              /\ (cmd.globs = <<>> /\ \A n \in Named : n \in DOMAIN prev)
                     => result = Ok /\ \A n \in Named : n \notin DOMAIN view
              /\ result = Ok
                     => \A n \in Named :
                            cmd_branch_forget(view, <<n>>, <<>>).result =
                                Err("NotFound", <<n>>)
    /\ (cmd.op = "delete" /\ result = Ok)
           => \A n \in Removed :
                  n \in DOMAIN view
                      => LET out == cmd_branch_forget(view, <<n>>, <<>>)
                         IN  out.result = Ok /\ n \notin DOMAIN out.view

\* A forget by name succeeded on a branch with remote targets only, the state
\* a delete leaves, next to a branch with a local target.
C12_Witness ==
    /\ cmd.op = "forget"
    /\ cmd.globs = <<>>
    /\ Len(cmd.names) = 2
    /\ cmd.names[1] \in DOMAIN prev
    /\ ~has_local(prev, cmd.names[1])
    /\ has_local(prev, cmd.names[2])
    /\ result = Ok
    /\ view = <<>>

\* C14: no entry of the view has neither a local target nor a remote target.
C14_NoEmptyEntry ==
    \A n \in DOMAIN view :
        view[n].local_target # NoTarget \/ view[n].remote_targets # NoRemotes

\* A delete removed the local target of a branch without remote targets, and
\* the view has no entry for it any more.
C14_Witness ==
    /\ cmd.op = "delete"
    /\ result = Ok
    /\ \E n \in Removed :
           /\ has_local(prev, n)
           /\ prev[n].remote_targets = NoRemotes
           /\ n \notin DOMAIN view

\* The entries the last command removed from the view.
Disappeared == DOMAIN prev \ DOMAIN view

\* C15 as stated: an entry disappears only by a forget that selected it, and a
\* delete removes no entry.
C15_AsStated ==
    /\ \A n \in Disappeared : cmd.op = "forget" /\ n \in Removed
    /\ cmd.op = "delete" => Disappeared = {}

\* C15 amended: an entry disappears only by a forget that selected it or by a
\* delete that selected it when it had no remote target; a delete keeps the
\* entry, with its remote targets, of every branch that has remote targets.
C15_EntryRemovedOnlyByForgetOrLastTarget ==
    /\ \A n \in Disappeared :
           \/ cmd.op = "forget" /\ n \in Removed
           \/ /\ cmd.op = "delete"
              /\ n \in Removed
              /\ prev[n].remote_targets = NoRemotes
    /\ cmd.op = "delete"
           => \A n \in DOMAIN prev :
                  prev[n].remote_targets # NoRemotes
                      => /\ n \in DOMAIN view
                         /\ view[n].remote_targets = prev[n].remote_targets

\* One delete took the local targets of a branch without remote targets, whose
\* entry disappeared, and of a branch with a remote target, whose entry stayed.
C15_Witness ==
    /\ cmd.op = "delete"
    /\ result = Ok
    /\ \E n \in Removed : n \in Disappeared /\ prev[n].remote_targets = NoRemotes
    /\ \E n \in Removed :
           /\ prev[n].remote_targets # NoRemotes
           /\ n \in DOMAIN view
           /\ ~has_local(view, n)

\* The last command is one of the four mutations and committed changes for
\* more than one name.
TouchedSeveral ==
    /\ cmd.op \in {"create", "set", "delete", "forget"}
    /\ tx
    /\ Cardinality(Removed) > 1

\* C16 as stated: each of the four mutations that commits changes for more
\* than one name has written a plural warning.
C16_AsStated == TouchedSeveral => warning > 0

\* C16 amended: create and set write the plural warning, with the number of
\* names given, once the names are accepted and before the revision is
\* resolved, the fast-forward check is made and the transaction is opened, and
\* the warning does not keep them from committing; delete and forget write no
\* warning: after their transaction is finished they write the number of
\* branches removed when it exceeds one.
C16_PluralWarningOfCreateAndSet ==
    /\ (/\ cmd.op = "create"
        /\ Len(cmd.names) > 1
        /\ \A n \in Named : ~has_local(prev, n))
           => /\ warning = Len(cmd.names)
              /\ resolves(cmd.rev) => tx /\ result = Ok
    /\ (cmd.op = "set" /\ Len(cmd.names) > 1)
           => /\ warning = Len(cmd.names)
              /\ (/\ resolves(cmd.rev)
                  /\ \/ cmd.allow_backwards
                     \/ \A n \in Named : is_fast_forward(prev, n, cmd.rev))
                     => tx /\ result = Ok
    /\ (warning > 0 /\ ~tx) => result.kind \in {"RevisionError", "NonFastForward"}
    /\ cmd.op \in {"delete", "forget"}
           => /\ warning = 0
              /\ summary = IF tx /\ Cardinality(Removed) > 1
                           THEN Cardinality(Removed) ELSE 0

\* A create of two different branches wrote the warning and committed both.
C16_Witness ==
    /\ cmd.op = "create"
    /\ Len(cmd.names) = 2
    /\ cmd.names[1] # cmd.names[2]
    /\ warning = 2
    /\ tx
    /\ result = Ok
    /\ \A n \in Named : get_local_branch(view, n) = Normal(cmd.rev)

\* The local target of the branch the scenario is about.
ScenarioTarget == get_local_branch(view, e2e.name)

\* C13: in the scenario on a branch without entry, the create at a succeeds
\* and the local target is Normal(a); the second create fails with
\* AlreadyExists and the target is still Normal(a); the set without override
\* to a commit c that a is no ancestor of fails with NonFastForward and the
\* target is still Normal(a); the same set with the override succeeds and the
\* target is Normal(c).
C13_EndToEnd ==
    /\ e2e.step \in 1..3 => ScenarioTarget = Normal(e2e.a)
    /\ e2e.step = 4 => ScenarioTarget = Normal(e2e.c)
    /\ ~Idle
           => /\ e2e.step = 1 => result = Ok /\ tx
              /\ e2e.step = 2 => result = Err("AlreadyExists", <<e2e.name>>)
              /\ e2e.step = 3 => result.kind = "NonFastForward" /\ view = prev
              /\ e2e.step = 4 => result = Ok /\ tx

\* The scenario has run to its end: the set with the override has moved the
\* branch from a to c.
C13_Witness ==
    /\ e2e.step = 4
    /\ cmd.op = "set"
    /\ result = Ok
    /\ get_local_branch(prev, e2e.name) = Normal(e2e.a)
    /\ ~is_ancestor(e2e.a, e2e.c)
    /\ ScenarioTarget = Normal(e2e.c)

\* The operative set of a target: its commit, or the adds of a conflict.
OperativeSet(t) == IF t.kind = "Normal" THEN {t.id} ELSE Range(t.adds)

\* The commits reachable from a commit of S.
Reachable(S) == {c \in Commits : \E d \in S : is_ancestor(c, d)}

\* The remote entries the last list wrote: <<i, j>> is the j-th remote written
\* under the i-th branch.
ListedRemotes ==
    {ij \in (1..Len(listing.lines)) \X (1..Len(SortedRemotes)) :
        ij[2] <= Len(listing.lines[ij[1]].remotes)}

\* The i-th branch and its j-th remote are written as all_branches has them.
WrittenAsComposed(i, j) ==
    LET line == listing.lines[i]
        bt == listing.branches[line.name]
    IN  /\ line.target = bt.local_target
        /\ line.remotes[j].remote \in DOMAIN bt.remote_targets
        /\ line.remotes[j].target = bt.remote_targets[line.remotes[j].remote]

\* C17: in a list, a remote target written under a branch whose local target
\* has the same operative set has both counts zero and no ahead/behind
\* annotation.
C17_SameOperativeSetNoDivergence ==
    cmd.op = "list"
        => \A ij \in ListedRemotes :
               LET line == listing.lines[ij[1]]
                   entry == line.remotes[ij[2]]
               IN  /\ WrittenAsComposed(ij[1], ij[2])
                   /\ (/\ line.target # NoTarget
                       /\ OperativeSet(line.target) = OperativeSet(entry.target))
                          => /\ entry.counted
                             /\ entry.ahead = 0
                             /\ entry.behind = 0
                             /\ entry.note = ""

\* A list wrote, without annotation, a conflicted remote target under a local
\* conflict with the same adds and other removes.
C17_Witness ==
    /\ cmd.op = "list"
    /\ \E ij \in ListedRemotes :
           LET line == listing.lines[ij[1]]
               entry == line.remotes[ij[2]]
           IN  /\ line.target.kind = "Conflict"
               /\ entry.target.kind = "Conflict"
               /\ line.target.adds = entry.target.adds
               /\ line.target.removes # entry.target.removes
               /\ entry.counted
               /\ entry.note = ""

\* C18: in a list, for every remote target written under a branch with a
\* local target, ahead is the number of commits reachable from the remote's
\* operative set and not from the local's, behind the number the other way
\* round, and the annotation is none when both are zero, "ahead" when only
\* ahead is positive, "behind" when only behind is positive, and both when
\* both are positive.
C18_DivergencePresentation ==
    cmd.op = "list"
        => \A ij \in ListedRemotes :
               LET line == listing.lines[ij[1]]
                   entry == line.remotes[ij[2]]
                   ahead == Cardinality(Reachable(OperativeSet(entry.target))
                                \ Reachable(OperativeSet(line.target)))
                   behind == Cardinality(Reachable(OperativeSet(line.target))
                                \ Reachable(OperativeSet(entry.target)))
               IN  line.target # NoTarget
                       => /\ entry.counted
                          /\ entry.ahead = ahead
                          /\ entry.behind = behind
                          /\ entry.note = "" <=> (ahead = 0 /\ behind = 0)
                          /\ entry.note = "ahead" <=> (ahead > 0 /\ behind = 0)
                          /\ entry.note = "behind" <=> (ahead = 0 /\ behind > 0)
                          /\ entry.note = "ahead, behind"
                                 <=> (ahead > 0 /\ behind > 0)

\* A list wrote a remote target that is ahead of and behind the local target
\* with both counts.
C18_Witness ==
    /\ cmd.op = "list"
    /\ \E ij \in ListedRemotes :
           LET entry == listing.lines[ij[1]].remotes[ij[2]]
           IN  /\ entry.counted
               /\ entry.ahead > 0
               /\ entry.behind > 0
               /\ entry.note = "ahead, behind"

\* The entry of branch n in the view, the default entry when it has none.
EntryOrDefault(n) == IF n \in DOMAIN view THEN view[n] ELSE DefaultBranchTarget

\* C19: the map a list composes holds the branches of the view and the
\* git-tracking branches.  A git-tracking branch whose entry has a remote
\* target under "git" keeps its entry as stored and is warned about; any other
\* git-tracking branch gets the git-tracking target under "git", is not warned
\* about and keeps its local target (none for a branch without entry) and its
\* other remote targets; a branch that is not git-tracking is as in the view.
\* The view itself is unchanged.
C19_GitTrackingMergedUnlessStored ==
    cmd.op = "list"
        => /\ view = prev
           /\ DOMAIN listing.branches = DOMAIN view \cup DOMAIN git_refs
           /\ \A n \in DOMAIN listing.branches :
                  LET stored == EntryOrDefault(n)
                      merged == listing.branches[n]
                  IN  IF n \notin DOMAIN git_refs
                      THEN merged = stored /\ n \notin Range(listing.warned)
                      ELSE IF "git" \in DOMAIN stored.remote_targets
                      THEN /\ merged = stored
                           /\ Occurrences(listing.warned, n) = 1
                      ELSE /\ merged.local_target = stored.local_target
                           /\ DOMAIN merged.remote_targets =
                                  DOMAIN stored.remote_targets \cup {"git"}
                           /\ merged.remote_targets["git"] = git_refs[n]
                           /\ \A r \in DOMAIN stored.remote_targets :
                                  merged.remote_targets[r] =
                                      stored.remote_targets[r]
                           /\ n \notin Range(listing.warned)

\* A list kept the stored target of a remote named "git" against another
\* git-tracking target and warned, and showed a branch known from git
\* tracking only with no local target.
C19_Witness ==
    /\ cmd.op = "list"
    /\ \E n \in DOMAIN view :
           /\ n \in DOMAIN git_refs
           /\ "git" \in DOMAIN view[n].remote_targets
           /\ view[n].remote_targets["git"] # git_refs[n]
           /\ listing.branches[n] = view[n]
           /\ n \in Range(listing.warned)
    /\ \E n \in DOMAIN git_refs :
           /\ n \notin DOMAIN view
           /\ listing.branches[n] =
                  BranchTarget(NoTarget, [r \in {"git"} |-> git_refs[n]])

\* The types other than the one the last call was made for hold what they
\* held before the call.
OtherTypesKept ==
    \A T \in TypeIds \ {called.type} :
        /\ (T \in DOMAIN values) = (T \in DOMAIN called.was)
        /\ T \in DOMAIN values => values[T] = called.was[T]

\* C20: get::<V>() answers None until a value of type V has been inserted and
\* the first value inserted for V after that, whatever was inserted later;
\* insert::<V>(generator) stores the generator's value only when the map holds
\* no value of type V, and otherwise runs no generator, returns the stored
\* value and replaces nothing; no call changes the value of another type.
C20_AnyMapKeepsFirstInsert ==
    /\ values = first
    /\ called.fn = "get" =>
          /\ values = called.was
          /\ called.ret = IF called.type \in DOMAIN first
                           THEN first[called.type] ELSE None
    /\ called.fn = "insert" =>
          /\ called.ret = first[called.type]
          /\ called.made = (called.type \notin DOMAIN called.was)
          /\ called.made => /\ called.ret = called.arg
                            /\ values[called.type] = called.arg
          /\ ~called.made => /\ values = called.was
                             /\ called.ret = called.was[called.type]
    /\ called.fn # "none" => OtherTypesKept

\* An insert with a generator of another value than the stored one was made
\* for a type while the other type held a value too.
C20_Witness ==
    /\ called.fn = "insert"
    /\ called.type \in DOMAIN called.was
    /\ called.arg # called.was[called.type]
    /\ \E T \in TypeIds \ {called.type} : T \in DOMAIN called.was

\* The names of the remotes written under the i-th branch of the last list.
WrittenRemotes(i) ==
    {listing.lines[i].remotes[j].remote :
        j \in 1..Len(listing.lines[i].remotes)}

\* C21: a list writes one line per branch of the composed map.  A branch with
\* a local target shows that target; one without shows "deleted" exactly when
\* it has a remote target under a name other than "git", and "forgotten" when
\* it has no remote target or only the one under "git".  The remotes written
\* under a branch are exactly those whose target differs from the local
\* target, each once, and the counts of a remote are computed exactly when
\* the branch has a local target.
C21_ListDisplayState ==
    cmd.op = "list"
        => /\ {listing.lines[i].name : i \in 1..Len(listing.lines)}
                  = DOMAIN listing.branches
           /\ Len(listing.lines) = Cardinality(DOMAIN listing.branches)
           /\ \A i \in 1..Len(listing.lines) :
                  LET line == listing.lines[i]
                      bt == listing.branches[line.name]
                      rts == bt.remote_targets
                  IN  /\ bt.local_target # NoTarget
                          => line.state = "target"
                               /\ line.target = bt.local_target
                      /\ bt.local_target = NoTarget
                          => /\ line.state \in {"deleted", "forgotten"}
                             /\ (line.state = "deleted")
                                    = (\E r \in DOMAIN rts : r # "git")
                             /\ (line.state = "forgotten")
                                    = (DOMAIN rts \subseteq {"git"})
                      /\ WrittenRemotes(i)
                             = {r \in DOMAIN rts : rts[r] # bt.local_target}
                      /\ Len(line.remotes) = Cardinality(WrittenRemotes(i))
                      /\ \A j \in 1..Len(line.remotes) :
                             /\ line.remotes[j].target
                                    = rts[line.remotes[j].remote]
                             /\ line.remotes[j].counted
                                    = (bt.local_target # NoTarget)

\* A list wrote a branch known to the local git repository only as
\* "forgotten", with its "git" target and no counts, and another branch, with
\* a target on "origin" and no local target, as "deleted".
C21_Witness ==
    /\ cmd.op = "list"
    /\ \E i, k \in 1..Len(listing.lines) :
           /\ listing.lines[i].state = "forgotten"
           /\ WrittenRemotes(i) = {"git"}
           /\ ~listing.lines[i].remotes[1].counted
           /\ listing.lines[k].state = "deleted"
           /\ "origin" \in WrittenRemotes(k)

\* The remote targets branch n had when the last command started, none for a
\* branch without entry.
RemotesBefore(n) ==
    IF n \in DOMAIN prev THEN prev[n].remote_targets ELSE NoRemotes

\* C22: after a successful create or set every named branch has the remote
\* targets it had before, and every branch that was not named has the entry
\* it had before, or still none.
C22_CreateSetFrame ==
    (cmd.op \in {"create", "set"} /\ result = Ok)
        => /\ \A n \in Named :
                  /\ n \in DOMAIN view
                  /\ view[n].remote_targets = RemotesBefore(n)
           /\ \A n \in NameSet \ Named :
                  /\ (n \in DOMAIN view) = (n \in DOMAIN prev)
                  /\ n \in DOMAIN view => view[n] = prev[n]

\* A set moved a branch that has a remote target while another branch, not
\* named, had an entry.
C22_Witness ==
    /\ cmd.op = "set"
    /\ result = Ok
    /\ \E n \in Named :
           /\ RemotesBefore(n) # NoRemotes
           /\ get_local_branch(prev, n) # NoTarget
           /\ get_local_branch(view, n) # get_local_branch(prev, n)
    /\ \E m \in NameSet \ Named : m \in DOMAIN prev

\* Every name given to the last command had, when it started, remote targets
\* and no local target.
NamedRemoteOnly ==
    \A n \in Named :
        /\ n \in DOMAIN prev
        /\ prev[n].local_target = NoTarget
        /\ prev[n].remote_targets # NoRemotes

\* C23: a create whose names all have remote targets and no local target, at
\* a revision that resolves to commit c, succeeds and gives each name the
\* local target Normal(c) with the remote targets it had; a create fails with
\* AlreadyExists only for a name that has a local target; and a create that
\* follows the delete of a branch with remote targets, at the commit the
\* branch was on, leaves the entry the branch had before the delete.
C23_CreateAfterDeleteRestores ==
    /\ cmd.op = "create"
           => /\ (NamedRemoteOnly /\ resolves(cmd.rev))
                     => /\ result = Ok
                        /\ \A n \in Named :
                               view[n] = BranchTarget(Normal(cmd.rev),
                                                      prev[n].remote_targets)
              /\ result.kind = "AlreadyExists"
                     => /\ Len(result.names) = 1
                        /\ result.names[1] \in Named
                        /\ has_local(prev, result.names[1])
    /\ undo.step = 1 /\ ~Idle
           => /\ result = Ok
              /\ view[undo.name]
                     = BranchTarget(NoTarget, undo.entry.remote_targets)
    /\ undo.step = 2
           => /\ result = Ok
              /\ undo.name \in DOMAIN view
              /\ view[undo.name] = undo.entry

\* A branch that has a remote target was deleted and then created again at
\* the commit it was on: the create found it without local target and left
\* the entry it had before the delete.
C23_Witness ==
    /\ undo.step = 2
    /\ cmd.op = "create"
    /\ result = Ok
    /\ prev[undo.name] = BranchTarget(NoTarget, undo.entry.remote_targets)
    /\ undo.entry.remote_targets # NoRemotes
    /\ view[undo.name] = undo.entry

====
